---- MODULE Spec2Model ----
(***************************************************************************)
(* A model of src/src/Plot.tsx: the Plot node of motion-canvas-graphing.   *)
(*                                                                         *)
(* Numbers.  A JavaScript number is modelled as an exact rational <<n, d>> *)
(* in lowest terms with d > 0, extended with the three non-finite values   *)
(* of IEEE arithmetic: <<1, 0>> is +Infinity, <<-1, 0>> is -Infinity and   *)
(* <<0, 0>> is NaN.  The operators follow the IEEE rules for the           *)
(* non-finite values (Infinity - Infinity, 0 * Infinity and 0 / 0 are NaN, *)
(* x / 0 is an infinity, Math.log10 of 0 is -Infinity and of a negative    *)
(* number NaN).  Rounding of finite results and the sign of zero are not   *)
(* modelled: finite arithmetic is exact.                                   *)
(***************************************************************************)
EXTENDS Integers, Sequences, FiniteSets, TLC

VARIABLES
    propsArg,   \* the argument the constructor was called with
    error,      \* "none", or the error the constructor raised
    plot,       \* the node's properties (signals and readonly fields)
    ctx,        \* the CanvasRenderingContext2D the caller supplies
    log,        \* the context calls issued by the most recent drawShape
    frames,     \* drawShape calls since the properties were last written:
                \* 0, 1, or 2 for two or more
    lastOp,     \* the most recent operation
    ret,        \* the most recent operation's argument and return value
    tweens      \* number of property writes so far

vars == <<propsArg, error, plot, ctx, log, frames, lastOp, ret, tweens>>

\* Bound on the number of property writes (animation steps) in a behaviour.
MaxTweens == 1

-----------------------------------------------------------------------------
(* JavaScript numbers *)

Abs(i) == IF i < 0 THEN -i ELSE i

Sgn(i) == IF i < 0 THEN -1 ELSE IF i > 0 THEN 1 ELSE 0

RECURSIVE GCD(_, _)
GCD(a, b) == IF b = 0 THEN a ELSE GCD(b, a % b)

Norm(n, d) ==
    IF d = 0 THEN <<Sgn(n), 0>>
    ELSE LET s == IF d < 0 THEN -1 ELSE 1
             g == GCD(Abs(n), Abs(d))
         IN  <<(s * n) \div g, (s * d) \div g>>

R(n, d) == Norm(n, d)
Num(i) == <<i, 1>>
NaN == <<0, 0>>
PosInf == <<1, 0>>
NegInf == <<-1, 0>>

IsNaN(a) == a = NaN
IsFinite(a) == a[2] # 0

Add(a, b) ==
    IF a[2] = 0 /\ b[2] = 0
    THEN (IF a = b THEN a ELSE NaN)
    ELSE Norm(a[1] * b[2] + b[1] * a[2], a[2] * b[2])

Neg(a) == <<-a[1], a[2]>>

Sub(a, b) == Add(a, Neg(b))

Mul(a, b) == Norm(a[1] * b[1], a[2] * b[2])

Div(a, b) ==
    Norm(a[1] * b[2] * (IF b[1] < 0 THEN -1 ELSE 1), a[2] * Abs(b[1]))

\* a <= b and a < b as JavaScript evaluates them: false when either is NaN.
Leq(a, b) ==
    /\ ~IsNaN(a)
    /\ ~IsNaN(b)
    /\ IF a[2] = 0 /\ b[2] = 0 THEN a[1] <= b[1]
       ELSE a[1] * b[2] <= b[1] * a[2]

Lt(a, b) == Leq(a, b) /\ a # b

\* Math.floor
Floor(a) == IF a[2] = 0 THEN a ELSE <<a[1] \div a[2], 1>>

\* Math.round: the nearest integer, halves towards +Infinity.
Round(a) == IF a[2] = 0 THEN a ELSE Floor(Add(a, <<1, 2>>))

\* Math.log10.  Exact on the powers of ten; 0 gives -Infinity and a negative
\* number NaN.  The model only supplies arguments on which it is exact.
RECURSIVE Log10(_)
Log10(a) ==
    IF IsNaN(a) \/ a[1] < 0 THEN NaN
    ELSE IF a[1] = 0 THEN NegInf
    ELSE IF a[2] = 0 THEN PosInf
    ELSE IF a[1] = a[2] THEN Num(0)
    ELSE IF a[2] = 1 /\ a[1] % 10 = 0 THEN Add(Num(1), Log10(<<a[1] \div 10, 1>>))
    ELSE IF a[1] = 1 /\ a[2] % 10 = 0 THEN Sub(Log10(<<1, a[2] \div 10>>), Num(1))
    ELSE CHOOSE x \in {} : TRUE

-----------------------------------------------------------------------------
(* Vector2 *)

Vec(x, y) == [x |-> x, y |-> y]
V(i, j) == Vec(Num(i), Num(j))
VAdd(a, b) == Vec(Add(a.x, b.x), Add(a.y, b.y))
VSub(a, b) == Vec(Sub(a.x, b.x), Sub(a.y, b.y))
VMul(a, b) == Vec(Mul(a.x, b.x), Mul(a.y, b.y))
VDiv(a, b) == Vec(Div(a.x, b.x), Div(a.y, b.y))
Floored(a) == Vec(Floor(a.x), Floor(a.y))

-----------------------------------------------------------------------------
(* The node's properties *)

\* The @initial values of the Plot signals, and the properties inherited from
\* Rect that drawShape reads (position, size, fontFamily).
Defaults ==
    [min |-> V(0, 0),
     max |-> V(100, 100),
     ticks |-> V(10, 10),
     labelSize |-> V(30, 30),
     labelPadding |-> V(10, 10),
     tickLabelSize |-> V(10, 10),
     tickOverflow |-> V(5, 5),
     gridStrokeWidth |-> V(1, 1),
     axisStrokeWidth |-> V(2, 2),
     xAxisColor |-> "white",
     xAxisTextColor |-> "white",
     xAxisLabel |-> "",
     yAxisColor |-> "white",
     yAxisTextColor |-> "white",
     yAxisLabel |-> "",
     size |-> V(0, 0),
     position |-> V(0, 0),
     fontFamily |-> "Roboto"]

SignalNames == DOMAIN Defaults

\* The constructor arguments the model supplies: no argument at all, and
\* props objects in the shape of the README's scenes.
NoProps == [given |-> FALSE, fields |-> [size |-> V(0, 0)]]

PropsArgs ==
    { NoProps,
      [given |-> TRUE,
       fields |-> [size |-> V(500, 500), xAxisLabel |-> "Time",
                   yAxisLabel |-> "Beans", labelSize |-> V(10, 10)]],
      [given |-> TRUE,
       fields |-> [size |-> V(500, 500), labelSize |-> V(0, 0),
                   min |-> V(-6, -1), max |-> V(6, 1),
                   xLabelFormatter |-> "roundPi", ticks |-> V(4, 4)]],
      [given |-> TRUE,
       fields |-> [size |-> V(400, 300), yLabelFormatter |-> "roundPi",
                   ticks |-> Vec(R(5, 2), R(1, 2))]] }

\* The values a property is set to during an animation.
Values(f) ==
    CASE f = "min" -> {V(-100, -100), V(100, 0)}
      [] f = "max" -> {V(10, 1), V(100, 0), V(50, -10)}
      [] f = "ticks" -> {V(3, 2), Vec(R(5, 2), R(3, 2)), V(0, 0),
                         Vec(R(-1, 2), Num(-2))}
      [] f = "tickLabelSize" -> {V(0, 12)}
      [] f = "axisStrokeWidth" -> {V(2, 4)}
      [] f = "xAxisColor" -> {"red"}
      [] f = "yAxisColor" -> {"blue"}
      [] f = "size" -> {V(1000, 1000), V(60, 50)}
      [] f = "position" -> {V(40, 20)}
      [] OTHER -> {}

\* The points getPointFromPlotSpace is called with, besides min and max.
Points == {V(50, 25)}

\* props.f ?? d
Coalesce(props, f, d) ==
    IF f \in DOMAIN props.fields THEN props.fields[f] ELSE d

\* new Plot(props): super(props) initialises the signals from props and the
\* @initial values; reading props.xLabelFormatter of an undefined props throws.
Constructor(props) ==
    IF ~props.given
    THEN [error |-> "TypeError",
          plot |-> [f \in SignalNames |-> Defaults[f]]
                     @@ [xLabelFormatter |-> "undefined",
                         yLabelFormatter |-> "undefined"]]
    ELSE [error |-> "none",
          plot |-> [f \in SignalNames |-> Coalesce(props, f, Defaults[f])]
                     @@ [xLabelFormatter |->
                             Coalesce(props, "xLabelFormatter", "toFixed0"),
                         yLabelFormatter |->
                             Coalesce(props, "yLabelFormatter", "toFixed0")]]

\* A label formatter applied to a number.  "toFixed0" is x => x.toFixed(0);
\* "roundPi" is a caller's formatter in the shape of the README's,
\* x => `${Math.round(x)}pi`.
Format(fmt, v) ==
    IF fmt = "toFixed0"
    THEN IF IsNaN(v) THEN "NaN"
         ELSE IF v = PosInf THEN "Infinity"
         ELSE IF v = NegInf THEN "-Infinity"
         ELSE IF v[1] < 0 THEN "-" \o ToString(Round(Neg(v))[1])
         ELSE ToString(Round(v)[1])
    ELSE IF IsNaN(v) THEN "NaNpi"
         ELSE IF v = PosInf THEN "Infinitypi"
         ELSE IF v = NegInf THEN "-Infinitypi"
         ELSE ToString(Round(v)[1]) \o "pi"

-----------------------------------------------------------------------------
(* Geometry *)

Half(a) == Div(a, Num(2))

\* The cardinal points of the node, for a node that is neither rotated nor
\* scaled: position plus or minus half the size.
TopLeft(p) == VAdd(p.position, Vec(Neg(Half(p.size.x)), Neg(Half(p.size.y))))
TopRight(p) == VAdd(p.position, Vec(Half(p.size.x), Neg(Half(p.size.y))))
BottomLeft(p) == VAdd(p.position, Vec(Neg(Half(p.size.x)), Half(p.size.y)))
Bottom(p) == VAdd(p.position, Vec(Num(0), Half(p.size.y)))
Left(p) == VAdd(p.position, Vec(Neg(Half(p.size.x)), Num(0)))

edgePadding(p) ==
    VAdd(VAdd(VAdd(VAdd(p.labelSize, p.labelPadding),
                   VMul(p.tickLabelSize,
                        Vec(Add(Log10(p.max.y), Num(1)), Num(2)))),
              p.tickOverflow),
         p.axisStrokeWidth)

\* gridSize with the edge padding left out.
gridSizeWholeNode(p) == p.size

gridSize(p) == VSub(p.size, edgePadding(p))

toRelativeGridSize(p, pt) == VDiv(VSub(pt, p.min), VSub(p.max, p.min))

getPointFromPlotSpace(p, pt) ==
    LET bottomLeft == VAdd(BottomLeft(p),
                           VMul(edgePadding(p), V(1, -1)))
        delta == VSub(TopRight(p), bottomLeft)
    IN  VAdd(bottomLeft, VMul(toRelativeGridSize(p, pt), delta))

mapToX(p, value) == Add(p.min.x, Mul(value, Sub(p.max.x, p.min.x)))

mapToY(p, value) == Add(p.min.y, Mul(value, Sub(p.max.y, p.min.y)))

-----------------------------------------------------------------------------
(* The canvas context *)

\* resolveCanvasStyle of a colour: its CSS serialisation.
resolveCanvasStyle(style) == "css(" \o style \o ")"

\* One statement of drawShape that touches the context: a method call or a
\* property assignment (op ends in "=").  site names the part of drawShape it
\* belongs to and tick the loop index (-1 outside the loops); args are the
\* numeric arguments, str the string argument, val the number a tick label
\* was formatted from.
Cmd(op, site, tick, args, str, val) ==
    [op |-> op, site |-> site, tick |-> tick, args |-> args, str |-> str,
     val |-> val]

Call(op, site, tick, args) == Cmd(op, site, tick, args, "", NaN)
SetStr(op, site, tick, str) == Cmd(op, site, tick, <<>>, str, NaN)

\* The context as the caller hands it over: the 2D context's initial drawing
\* state, the transform written relative to the caller's.
InitCtx ==
    [strokeStyle |-> "#000", lineWidth |-> Num(1), fillStyle |-> "#000",
     font |-> <<Num(10), "sans-serif">>, textAlign |-> "start",
     transform |-> <<>>, stack |-> <<>>]

\* The drawing state save() pushes and restore() pops.
DrawingState(c) ==
    [strokeStyle |-> c.strokeStyle, lineWidth |-> c.lineWidth,
     fillStyle |-> c.fillStyle, font |-> c.font, textAlign |-> c.textAlign,
     transform |-> c.transform]

\* The effect of one statement on the context.
Apply(c, cmd) ==
    CASE cmd.op = "strokeStyle=" -> [c EXCEPT !.strokeStyle = cmd.str]
      [] cmd.op = "fillStyle=" -> [c EXCEPT !.fillStyle = cmd.str]
      [] cmd.op = "textAlign=" -> [c EXCEPT !.textAlign = cmd.str]
      [] cmd.op = "lineWidth=" -> [c EXCEPT !.lineWidth = cmd.args[1]]
      [] cmd.op = "font=" -> [c EXCEPT !.font = <<cmd.args[1], cmd.str>>]
      [] cmd.op = "save" ->
            [c EXCEPT !.stack = Append(c.stack, DrawingState(c))]
      [] cmd.op = "restore" ->
            IF c.stack = <<>> THEN c
            ELSE LET s == c.stack[Len(c.stack)]
                 IN  [strokeStyle |-> s.strokeStyle, lineWidth |-> s.lineWidth,
                      fillStyle |-> s.fillStyle, font |-> s.font,
                      textAlign |-> s.textAlign, transform |-> s.transform,
                      stack |-> SubSeq(c.stack, 1, Len(c.stack) - 1)]
      [] cmd.op \in {"translate", "rotate"} ->
            [c EXCEPT !.transform =
                 Append(c.transform, [op |-> cmd.op, args |-> cmd.args])]
      [] OTHER -> c

IsCall(cmd) == cmd.op \in {"beginPath", "moveTo", "lineTo", "stroke",
                           "fillText", "save", "restore", "translate",
                           "rotate"}

\* A call as the context receives it: the statement and the drawing state
\* it is issued under.
Issued(c, cmd) == [cmd |-> cmd, state |-> DrawingState(c),
                   depth |-> Len(c.stack)]

\* Runs the statements cmds[lo..hi] in order on context c: the context they
\* leave and the calls they issue.
RECURSIVE Exec(_, _, _, _)
Exec(cmds, lo, hi, c) ==
    IF lo > hi THEN [ctx |-> c, log |-> <<>>]
    ELSE IF lo = hi
    THEN [ctx |-> Apply(c, cmds[lo]),
          log |-> IF IsCall(cmds[lo]) THEN <<Issued(c, cmds[lo])>> ELSE <<>>]
    ELSE LET mid == (lo + hi) \div 2
             l == Exec(cmds, lo, mid, c)
         IN  \* the test evaluates the first half before the second starts
             IF Len(l.log) > mid - lo + 1 THEN l
             ELSE LET r == Exec(cmds, mid + 1, hi, l.ctx)
                  IN  [ctx |-> r.ctx, log |-> l.log \o r.log]

-----------------------------------------------------------------------------
(* drawShape *)

\* const tl = this.topLeft().add(this.edgePadding().mul([1, 0]))
Tl(p) == VAdd(TopLeft(p), VMul(edgePadding(p), V(1, 0)))

\* One iteration of the x tick loop.
XTick(p, i) ==
    LET tl == Tl(p)
        frac == Div(Num(i), p.ticks.x)
        startPosition == VAdd(tl, VMul(gridSize(p), Vec(frac, Num(1))))
        value == mapToX(p, frac)
    IN  << Call("beginPath", "xTickLine", i, <<>>),
           Call("moveTo", "xTickLine", i,
                <<startPosition.x,
                  Add(Add(Add(startPosition.y, p.tickOverflow.x),
                          Half(p.axisStrokeWidth.x)),
                      Half(p.axisStrokeWidth.x))>>),
           Call("lineTo", "xTickLine", i, <<startPosition.x, tl.y>>),
           SetStr("strokeStyle=", "xTickLine", i,
                  resolveCanvasStyle(p.xAxisColor)),
           Call("lineWidth=", "xTickLine", i, <<p.gridStrokeWidth.x>>),
           Call("stroke", "xTickLine", i, <<>>),
           SetStr("fillStyle=", "xTickLabel", i,
                  resolveCanvasStyle(p.xAxisTextColor)),
           Cmd("font=", "xTickLabel", i, <<p.tickLabelSize.y>>, "sans-serif",
               NaN),
           SetStr("textAlign=", "xTickLabel", i, "right"),
           Cmd("fillText", "xTickLabel", i,
               <<startPosition.x,
                 Add(Add(Add(startPosition.y, p.tickLabelSize.x),
                         p.tickOverflow.x),
                     p.axisStrokeWidth.x)>>,
               Format(p.xLabelFormatter, value), value) >>

\* The x loop's condition written i < floored.x.
XLoopCondStrict(p, i) == Lt(Num(i), Floored(p.ticks).x)

\* for (let i = 0; i <= this.ticks().floored.x; i++)
XLoopCond(p, i) == Leq(Num(i), Floored(p.ticks).x)

RECURSIVE XLoop(_, _)
XLoop(p, i) ==
    IF XLoopCond(p, i) THEN XTick(p, i) \o XLoop(p, i + 1) ELSE <<>>

\* One iteration of the y tick loop.
YTick(p, i) ==
    LET tl == Tl(p)
        frac == Div(Num(i), p.ticks.y)
        startPosition ==
            VAdd(tl, VMul(gridSize(p), Vec(Num(1), Sub(Num(1), frac))))
        value == mapToY(p, frac)
    IN  << Call("beginPath", "yTickLine", i, <<>>),
           Call("moveTo", "yTickLine", i,
                <<startPosition.x, startPosition.y>>),
           Call("lineTo", "yTickLine", i,
                <<Sub(Sub(tl.x, p.tickOverflow.y), p.axisStrokeWidth.y),
                  startPosition.y>>),
           SetStr("strokeStyle=", "yTickLine", i,
                  resolveCanvasStyle(p.yAxisColor)),
           Call("lineWidth=", "yTickLine", i, <<p.gridStrokeWidth.y>>),
           Call("stroke", "yTickLine", i, <<>>),
           SetStr("fillStyle=", "yTickLabel", i,
                  resolveCanvasStyle(p.yAxisTextColor)),
           Cmd("font=", "yTickLabel", i, <<p.tickLabelSize.y>>, p.fontFamily,
               NaN),
           SetStr("textAlign=", "yTickLabel", i, "right"),
           Cmd("fillText", "yTickLabel", i,
               <<Sub(Sub(Sub(tl.x, p.tickLabelSize.y), p.tickOverflow.y),
                     p.axisStrokeWidth.y),
                 Add(startPosition.y, Half(p.tickLabelSize.y))>>,
               Format(p.yLabelFormatter, value), value) >>

\* for (let i = 0; i <= this.ticks().floored.y; i++)
YLoopCond(p, i) == Leq(Num(i), Floored(p.ticks).y)

RECURSIVE YLoop(_, _)
YLoop(p, i) ==
    IF YLoopCond(p, i) THEN YTick(p, i) \o YLoop(p, i + 1) ELSE <<>>

\* The line through plot-space x = 0, from min.y to max.y.
YAxisLine(p) ==
    LET yAxisStartPoint == getPointFromPlotSpace(p, Vec(Num(0), p.min.y))
        yAxisEndPoint == getPointFromPlotSpace(p, Vec(Num(0), p.max.y))
        h == Half(p.gridStrokeWidth.y)
    IN  << Call("beginPath", "yAxisLine", -1, <<>>),
           Call("moveTo", "yAxisLine", -1,
                <<Sub(yAxisStartPoint.x, h), Sub(yAxisStartPoint.y, h)>>),
           Call("lineTo", "yAxisLine", -1,
                <<Sub(yAxisEndPoint.x, h), Add(yAxisEndPoint.y, h)>>),
           SetStr("strokeStyle=", "yAxisLine", -1,
                  resolveCanvasStyle(p.xAxisColor)),
           Call("lineWidth=", "yAxisLine", -1, <<p.axisStrokeWidth.x>>),
           Call("stroke", "yAxisLine", -1, <<>>) >>

\* The line through plot-space y = 0, from min.x to max.x.
XAxisLine(p) ==
    LET xAxisStartPoint == getPointFromPlotSpace(p, Vec(p.min.x, Num(0)))
        xAxisEndPoint == getPointFromPlotSpace(p, Vec(p.max.x, Num(0)))
        h == Half(p.gridStrokeWidth.x)
    IN  << Call("beginPath", "xAxisLine", -1, <<>>),
           Call("moveTo", "xAxisLine", -1,
                <<Sub(xAxisStartPoint.x, h), Add(xAxisStartPoint.y, h)>>),
           Call("lineTo", "xAxisLine", -1,
                <<Add(xAxisEndPoint.x, h), Add(xAxisEndPoint.y, h)>>),
           SetStr("strokeStyle=", "xAxisLine", -1,
                  resolveCanvasStyle(p.yAxisColor)),
           Call("lineWidth=", "xAxisLine", -1, <<p.axisStrokeWidth.y>>),
           Call("stroke", "xAxisLine", -1, <<>>) >>

XAxisLabel(p) ==
    << SetStr("fillStyle=", "xAxisLabel", -1,
              resolveCanvasStyle(p.xAxisTextColor)),
       Cmd("font=", "xAxisLabel", -1, <<p.labelSize.y>>, p.fontFamily, NaN),
       SetStr("textAlign=", "xAxisLabel", -1, "center"),
       Cmd("fillText", "xAxisLabel", -1,
           <<Add(Bottom(p).x, Half(edgePadding(p).x)),
             Sub(Bottom(p).y, Half(p.labelPadding.x))>>,
           p.xAxisLabel, NaN) >>

\* The rotated Y axis label without the closing restore().
YAxisLabelNoRestore(p) ==
    << SetStr("fillStyle=", "yAxisLabel", -1,
              resolveCanvasStyle(p.yAxisTextColor)),
       Cmd("font=", "yAxisLabel", -1, <<p.labelSize.y>>, p.fontFamily, NaN),
       SetStr("textAlign=", "yAxisLabel", -1, "center"),
       Call("save", "yAxisLabel", -1, <<>>),
       Call("translate", "yAxisLabel", -1,
            <<Add(Add(Left(p).x, Half(p.labelPadding.y)), p.labelSize.y),
              Sub(Left(p).y, Half(edgePadding(p).y))>>),
       Call("rotate", "yAxisLabel", -1, <<Num(-1)>>),
       Cmd("fillText", "yAxisLabel", -1, <<Num(0), Num(0)>>, p.yAxisLabel,
           NaN) >>

\* rotate's argument -Math.PI / 2 is written in quarter turns: -1.
YAxisLabel(p) ==
    << SetStr("fillStyle=", "yAxisLabel", -1,
              resolveCanvasStyle(p.yAxisTextColor)),
       Cmd("font=", "yAxisLabel", -1, <<p.labelSize.y>>, p.fontFamily, NaN),
       SetStr("textAlign=", "yAxisLabel", -1, "center"),
       Call("save", "yAxisLabel", -1, <<>>),
       Call("translate", "yAxisLabel", -1,
            <<Add(Add(Left(p).x, Half(p.labelPadding.y)), p.labelSize.y),
              Sub(Left(p).y, Half(edgePadding(p).y))>>),
       Call("rotate", "yAxisLabel", -1, <<Num(-1)>>),
       Cmd("fillText", "yAxisLabel", -1, <<Num(0), Num(0)>>, p.yAxisLabel,
           NaN),
       Call("restore", "yAxisLabel", -1, <<>>) >>

\* drawShape with the axis lines drawn before the tick loops.
drawShapeAxesFirst(p) ==
    YAxisLine(p) \o XAxisLine(p) \o XLoop(p, 0) \o YLoop(p, 0)
        \o XAxisLabel(p) \o YAxisLabel(p)

\* The statements of one drawShape call, in program order.
drawShape(p) ==
    XLoop(p, 0) \o YLoop(p, 0) \o YAxisLine(p) \o XAxisLine(p)
        \o XAxisLabel(p) \o YAxisLabel(p)

-----------------------------------------------------------------------------
(* The state machine *)

\* What an operation that returns nothing leaves in ret.
Void == [point |-> Vec(NaN, NaN), value |-> Vec(NaN, NaN)]

Init ==
    \E props \in PropsArgs :
        /\ propsArg = props
        /\ error = Constructor(props).error
        /\ plot = Constructor(props).plot
        /\ ctx = InitCtx
        /\ log = <<>>
        /\ frames = 0
        /\ lastOp = "constructor"
        /\ ret = Void
        /\ tweens = 0

\* A property is set (one step of a tween, or a plain signal write).
Tween ==
    /\ error = "none"
    /\ tweens < MaxTweens
    /\ \E f \in SignalNames : \E v \in Values(f) :
           /\ v # plot[f]
           /\ plot' = [plot EXCEPT ![f] = v]
    /\ tweens' = tweens + 1
    /\ frames' = 0
    /\ lastOp' = "tween"
    /\ ret' = Void
    /\ UNCHANGED <<propsArg, error, ctx, log>>

\* drawShape that floors the tick counts in place instead of reading them.
DrawShapeFlooringTicks ==
    /\ error = "none"
    /\ LET cmds == drawShape(plot)
           r == Exec(cmds, 1, Len(cmds), ctx)
       IN  /\ ctx' = r.ctx
           /\ log' = r.log
    /\ plot' = [plot EXCEPT !.ticks = Floored(plot.ticks)]
    /\ frames' = IF frames = 0 THEN 1 ELSE 2
    /\ lastOp' = "drawShape"
    /\ ret' = Void
    /\ UNCHANGED <<propsArg, error, tweens>>

\* The host renders the node: one call of drawShape(context).
DrawShape ==
    /\ error = "none"
    /\ LET cmds == drawShape(plot)
           r == Exec(cmds, 1, Len(cmds), ctx)
       IN  /\ ctx' = r.ctx
           /\ log' = r.log
    /\ frames' = IF frames = 0 THEN 1 ELSE 2
    /\ lastOp' = "drawShape"
    /\ ret' = Void
    /\ UNCHANGED <<propsArg, error, plot, tweens>>

\* A caller maps a data point to pixels.
GetPoint ==
    /\ error = "none"
    /\ \E pt \in Points \cup {plot.min, plot.max} :
           ret' = [point |-> pt, value |-> getPointFromPlotSpace(plot, pt)]
    /\ lastOp' = "getPointFromPlotSpace"
    /\ UNCHANGED <<propsArg, error, plot, ctx, log, frames, tweens>>

Next == Tween \/ DrawShape \/ GetPoint

Spec == Init /\ [][Next]_vars

-----------------------------------------------------------------------------
(* Properties *)

\* The log holds the calls of a drawShape run on the current properties.
Fresh == error = "none" /\ frames >= 1

\* The positions in the log of the calls of method op issued at a site.
Calls(site, op) ==
    {k \in 1..Len(log) : log[k].cmd.site = site /\ log[k].cmd.op = op}

Zero == Num(0)

\* C1: getPointFromPlotSpace is the linear interpolation from data space to
\* the grid rectangle: whenever max differs from min on both axes, the result
\* for a point p is G0 + ((p - min) / (max - min)) * (G1 - G0) with
\* G0 = bottomLeft + (edgePadding.x, -edgePadding.y) and G1 = topRight; p = min
\* maps to G0 and p = max maps to the node's topRight.
C1_PointIsInterpolation ==
    (/\ lastOp = "getPointFromPlotSpace"
     /\ plot.max.x # plot.min.x
     /\ plot.max.y # plot.min.y)
    => LET ep == edgePadding(plot)
           G0 == VAdd(BottomLeft(plot), Vec(ep.x, Neg(ep.y)))
           G1 == TopRight(plot)
           p == ret.point
           rel == VDiv(VSub(p, plot.min), VSub(plot.max, plot.min))
       IN  /\ ret.value = VAdd(G0, VMul(rel, VSub(G1, G0)))
           /\ p = plot.min => ret.value = G0
           /\ p = plot.max => ret.value = G1

C3_PropsOptional ==
    /\ ~propsArg.given =>
          /\ error = "none"
          /\ plot.xLabelFormatter = "toFixed0"
          /\ plot.yLabelFormatter = "toFixed0"
    /\ propsArg.given =>
          /\ error = "none"
          /\ plot.xLabelFormatter =
                Coalesce(propsArg, "xLabelFormatter", "toFixed0")
          /\ plot.yLabelFormatter =
                Coalesce(propsArg, "yLabelFormatter", "toFixed0")

\* The number of iterations the claim C4 states for a tick count t.
ExpectedTicks(t) == IF Floor(t)[1] + 1 > 0 THEN Floor(t)[1] + 1 ELSE 0

\* At a loop's sites the strokes and fillTexts alternate, one pair per
\* index 0..n-1 in order: the stroke of tick i, then the fillText of tick i.
TickPairs(lineSite, labelSite, n) ==
    LET ks == {k \in 1..Len(log) :
                 /\ log[k].cmd.site \in {lineSite, labelSite}
                 /\ log[k].cmd.op \in {"stroke", "fillText"}}
        Pos(k) == Cardinality({j \in ks : j <= k})
    IN  /\ Cardinality(ks) = 2 * n
        /\ \A k \in ks :
              IF Pos(k) % 2 = 1
              THEN /\ log[k].cmd.op = "stroke"
                   /\ log[k].cmd.site = lineSite
                   /\ log[k].cmd.tick = (Pos(k) - 1) \div 2
              ELSE /\ log[k].cmd.op = "fillText"
                   /\ log[k].cmd.site = labelSite
                   /\ log[k].cmd.tick = (Pos(k) - 2) \div 2

\* C4: for finite ticks one drawShape call draws exactly
\* max(0, floor(ticks.x) + 1) vertical and max(0, floor(ticks.y) + 1)
\* horizontal gridlines, each gridline followed by exactly one tick label.
C4_TickCounts ==
    (Fresh /\ IsFinite(plot.ticks.x) /\ IsFinite(plot.ticks.y)) =>
    /\ Cardinality(Calls("xTickLine", "stroke")) = ExpectedTicks(plot.ticks.x)
    /\ Cardinality(Calls("yTickLine", "stroke")) = ExpectedTicks(plot.ticks.y)
    /\ TickPairs("xTickLine", "xTickLabel", ExpectedTicks(plot.ticks.x))
    /\ TickPairs("yTickLine", "yTickLabel", ExpectedTicks(plot.ticks.y))

\* C4 witness: a drawn plot with a fractional tick count above 2 on x (three
\* gridlines, each with its label) and a fractional tick count on y.
C4_Witness ==
    /\ Fresh
    /\ plot.ticks.x[2] # 1 /\ plot.ticks.y[2] # 1
    /\ Cardinality(Calls("xTickLine", "stroke")) = 3
    /\ Cardinality(Calls("yTickLabel", "fillText")) >= 1

\* The tick labels of one axis as the claim C5 states them.
LabelsAsClaimed(labelSite, fmt, lo, hi, t) ==
    LET ks == Calls(labelSite, "fillText")
        step == Div(Sub(hi, lo), t)
    IN  /\ \A k \in ks :
              LET i == log[k].cmd.tick
              IN  /\ log[k].cmd.str =
                        Format(fmt, Add(lo, Mul(Div(Num(i), t), Sub(hi, lo))))
                  /\ i = 0 => log[k].cmd.str = Format(fmt, lo)
                  /\ (Lt(Zero, t) /\ t[2] = 1 /\ i = t[1]) =>
                        log[k].cmd.str = Format(fmt, hi)
        /\ \A j, k \in ks :
              log[k].cmd.tick = log[j].cmd.tick + 1 =>
                 Sub(log[k].cmd.val, log[j].cmd.val) = step

\* C5: the label of tick i is the axis's formatter applied to
\* min + (i / ticks) * (max - min): tick 0 is always labelled with min, labels
\* change by the constant step (max - min) / ticks, and for a positive integer
\* ticks the last tick is labelled with max.
C5_TickLabels ==
    Fresh =>
    /\ LabelsAsClaimed("xTickLabel", plot.xLabelFormatter, plot.min.x,
                       plot.max.x, plot.ticks.x)
    /\ LabelsAsClaimed("yTickLabel", plot.yLabelFormatter, plot.min.y,
                       plot.max.y, plot.ticks.y)

\* What a logged run drew: every call with its arguments, and for the calls
\* that paint the part of the drawing state they paint with (stroke: stroke
\* style, line width and transform; fillText: fill style, font, alignment and
\* transform).
Drawn(l) ==
    [k \in 1..Len(l) |->
        [cmd |-> l[k].cmd,
         paint |->
            IF l[k].cmd.op = "stroke"
            THEN <<l[k].state.strokeStyle, l[k].state.lineWidth,
                   l[k].state.transform>>
            ELSE IF l[k].cmd.op = "fillText"
            THEN <<l[k].state.fillStyle, l[k].state.font,
                   l[k].state.textAlign, l[k].state.transform>>
            ELSE <<>>]]

\* C6: drawShape and getPointFromPlotSpace only read the node: a step of
\* either leaves every property as it was, and a drawShape call made with the
\* properties unchanged since the previous one issues the same calls with the
\* same arguments.
C6_NoStateBetweenFrames ==
    /\ [][lastOp' \in {"drawShape", "getPointFromPlotSpace"} =>
             (plot' = plot /\ propsArg' = propsArg)]_vars
    /\ [][(lastOp' = "drawShape" /\ frames >= 1) =>
             Drawn(log') = Drawn(log)]_vars

\* C6 witness: drawShape has run at least twice on the current properties,
\* which differ from the constructed ones.
C6_Witness ==
    /\ error = "none"
    /\ lastOp = "drawShape"
    /\ frames = 2
    /\ tweens >= 1
    /\ Len(log) > 0

\* C7: with ticks > 0 and size >= edgePadding componentwise every gridline
\* stays inside the grid rectangle: a vertical gridline's x lies in
\* [left + edgePadding.x, right] and a horizontal gridline's y in
\* [top, top + gridSize.y]; tick 0 lies on the grid's left or bottom edge, and
\* positions are strictly monotonic in the tick index when gridSize > 0.
C7_GridlinesInsideGrid ==
    LET ep == edgePadding(plot)
        gs == gridSize(plot)
        left == TopLeft(plot).x
        right == TopRight(plot).x
        top == TopLeft(plot).y
        xs == Calls("xTickLine", "moveTo")
        ys == Calls("yTickLine", "moveTo")
    IN  (/\ Fresh
         /\ Lt(Zero, plot.ticks.x) /\ Lt(Zero, plot.ticks.y)
         /\ Leq(ep.x, plot.size.x) /\ Leq(ep.y, plot.size.y))
        =>
        /\ \A k \in xs :
              /\ Leq(Add(left, ep.x), log[k].cmd.args[1])
              /\ Leq(log[k].cmd.args[1], right)
              /\ log[k].cmd.tick = 0 => log[k].cmd.args[1] = Add(left, ep.x)
        /\ \A k \in ys :
              /\ Leq(top, log[k].cmd.args[2])
              /\ Leq(log[k].cmd.args[2], Add(top, gs.y))
              /\ log[k].cmd.tick = 0 => log[k].cmd.args[2] = Add(top, gs.y)
        /\ Lt(Zero, gs.x) =>
              \A j, k \in xs : log[j].cmd.tick < log[k].cmd.tick =>
                  Lt(log[j].cmd.args[1], log[k].cmd.args[1])
        /\ Lt(Zero, gs.y) =>
              \A j, k \in ys : log[j].cmd.tick < log[k].cmd.tick =>
                  Lt(log[k].cmd.args[2], log[j].cmd.args[2])

\* C8: the line along the X axis is stroked with xAxisColor and line width
\* axisStrokeWidth.x, the line along the Y axis with yAxisColor and line width
\* axisStrokeWidth.y.
C8_AxisLineStyles ==
    Fresh =>
    /\ \A k \in Calls("xAxisLine", "stroke") :
          /\ log[k].state.strokeStyle = resolveCanvasStyle(plot.xAxisColor)
          /\ log[k].state.lineWidth = plot.axisStrokeWidth.x
    /\ \A k \in Calls("yAxisLine", "stroke") :
          /\ log[k].state.strokeStyle = resolveCanvasStyle(plot.yAxisColor)
          /\ log[k].state.lineWidth = plot.axisStrokeWidth.y

\* The stage of drawShape a call belongs to, in the order C9 states.
Stage(site) ==
    CASE site \in {"xTickLine", "xTickLabel"} -> 1
      [] site \in {"yTickLine", "yTickLabel"} -> 2
      [] site \in {"yAxisLine", "xAxisLine"} -> 3
      [] site = "xAxisLabel" -> 4
      [] site = "yAxisLabel" -> 5

\* C9: within one drawShape call the calls come in a fixed order: the x-tick
\* gridlines and labels, then the y-tick gridlines and labels, then the two
\* axis lines, then the X axis label, then the Y axis label; no gridline is
\* stroked after an axis line.
C9_DrawOrder ==
    Len(log) > 0 =>
    /\ \A j, k \in 1..Len(log) :
          j < k => Stage(log[j].cmd.site) <= Stage(log[k].cmd.site)
    /\ \A j, k \in 1..Len(log) :
          (/\ j < k
           /\ Stage(log[j].cmd.site) = Stage(log[k].cmd.site)
           /\ Stage(log[j].cmd.site) \in {1, 2})
          => log[j].cmd.tick <= log[k].cmd.tick
    /\ Cardinality(Calls("yAxisLine", "stroke")) = 1
    /\ Cardinality(Calls("xAxisLine", "stroke")) = 1
    /\ Cardinality(Calls("xAxisLabel", "fillText")) = 1
    /\ Cardinality(Calls("yAxisLabel", "fillText")) = 1
    /\ \A g \in Calls("xTickLine", "stroke") \cup Calls("yTickLine", "stroke") :
          \A a \in Calls("yAxisLine", "stroke") \cup Calls("xAxisLine", "stroke") :
              g < a

\* C9 witness: a drawn plot with gridlines on both axes.
C9_Witness ==
    /\ Fresh
    /\ Cardinality(Calls("xTickLine", "stroke")) >= 2
    /\ Cardinality(Calls("yTickLine", "stroke")) >= 2
    /\ Calls("xAxisLine", "stroke") # {}

\* The positions in the log of the calls of method op.
Method(op) == {k \in 1..Len(log) : log[k].cmd.op = op}

\* C10: drawShape leaves the context's transform and save-stack as it found
\* them: save and restore are each called once, in that order, translate and
\* rotate only between them, and every call outside that bracket is issued
\* under the caller's transform.
C10_TransformRestored ==
    /\ [][lastOp' = "drawShape" =>
             (ctx'.transform = ctx.transform /\ ctx'.stack = ctx.stack)]_vars
    /\ [](Len(log) > 0 =>
            /\ Cardinality(Method("save")) = 1
            /\ Cardinality(Method("restore")) = 1
            /\ \A sv \in Method("save") : \A rs \in Method("restore") :
                  /\ sv < rs
                  /\ \A k \in Method("translate") \cup Method("rotate") :
                        sv < k /\ k < rs
                  /\ \A k \in 1..Len(log) :
                        (k <= sv \/ k > rs) =>
                            /\ log[k].state.transform = log[1].state.transform
                            /\ log[k].depth = log[1].depth
                  /\ \A k \in 1..Len(log) :
                        log[k].cmd.site # "yAxisLabel" => k < sv)

\* C10 witness: drawShape has just run and drew the Y axis label under the
\* translated and rotated transform, inside the save.
C10_Witness ==
    /\ lastOp = "drawShape"
    /\ \E k \in Calls("yAxisLabel", "fillText") :
          /\ Len(log[k].state.transform) = 2
          /\ log[k].depth = 1
    /\ ctx.transform = <<>>
    /\ ctx.stack = <<>>

====
